---- MODULE Spec2Model ----
(***************************************************************************)
(* Model of the example scripts under src/patterns/workflows:              *)
(*   1-introduction/2-structured.py   structured output                    *)
(*   1-introduction/3-tools.py        one tool, tool loop, second request  *)
(*   1-introduction/4-retrieval.py    two tools, tool loop run twice       *)
(*   2-workflow-patterns/1_prompt_chaining.py   three chained calls        *)
(*   2-workflow-patterns/2_routing.py           router plus two handlers   *)
(* A behaviour is one execution of one script.  The remote model's replies *)
(* and the outcome of the tools' I/O are the nondeterministic inputs.      *)
(* Python values that may be None are records with a "kind" field; text is *)
(* a string and f-strings are string concatenations.                       *)
(***************************************************************************)
EXTENDS Integers, Sequences, FiniteSets, TLC

VARIABLES
  script,          \* which script is executing
  pc,              \* position in the script
  err,             \* the uncaught exception that ended the script, "" if none
  messages,        \* the `messages` list of the tool scripts
  response,        \* choices[0].message of the response the tool loop iterates
  idx,             \* 1-based position of the tool loop in message.tool_calls
  phase,           \* 4-retrieval.py: 1 = first question, 2 = second question
  name,            \* loop local `name`
  args,            \* loop local `args`
  final_response,  \* `event`, `final_response`, completion_final's parsed
  runNo,           \* workflows: which top-level call of process_calendar_request
  user_input,      \* workflows: argument of process_calendar_request
  stage_result,    \* workflows: info_extraction / route_result
  event_details,   \* chaining: event_details
  final_result,    \* workflows: value returned by process_calendar_request
  output,          \* workflows: lines printed by the top-level code
  requests,        \* log: remote requests issued (by the script, or by the
                   \* current run of process_calendar_request)
  replies,         \* log: the reply to each of those requests
  calls            \* log: local functions invoked, with their argument

vars == <<script, pc, err, messages, response, idx, phase, name, args,
          final_response, runNo, user_input, stage_result, event_details,
          final_result, output, requests, replies, calls>>

toolVars == <<messages, response, idx, phase, name, args>>
flowVars == <<runNo, user_input, stage_result, event_details, final_result, output>>

-----------------------------------------------------------------------------
(* Bounds of the model *)

\* longest tool_calls list a response carries
MaxToolCalls == 2

-----------------------------------------------------------------------------
(* Python values *)

None == [kind |-> "NoneType"]
NoText == "<None>"          \* an Optional[str] that is None
NoErr == ""

PyStr(s) == [kind |-> "str", v |-> s]
PyDict(s) == [kind |-> "dict", v |-> s]

\* str(result): the identity on a str, the printed form of a dict otherwise
Str(x) ==
  IF x.kind = "str" THEN x.v
  ELSE IF x.kind = "dict" THEN "{" \o x.v \o "}"
  ELSE "None"

Return(v) == [raised |-> FALSE, value |-> v, exc |-> NoErr]
Raise(e) == [raised |-> TRUE, value |-> None, exc |-> e]

\* the remote call itself raised (connection, status, validation error)
RemoteFailure == [kind |-> "error"]
RemoteError == "APIError"

SysMsg(c) == [role |-> "system", content |-> c]
UserMsg(c) == [role |-> "user", content |-> c]
ToolMsg(id, c) == [role |-> "tool", tool_call_id |-> id, content |-> c]

Request(site, api, msgs, tls, fmt) ==
  [site |-> site, api |-> api, messages |-> msgs, tools |-> tls,
   response_format |-> fmt]

-----------------------------------------------------------------------------
(* Tool scripts: 3-tools.py and 4-retrieval.py *)

ToolNames == {"get_weather", "search_knowledge", "fallback_answer"}

Coordinates == {[latitude |-> "48.8566", longitude |-> "2.3522"]}
Questions == {[question |-> "What is the return policy?"],
              [question |-> "What is the current weather in Tokyo?"]}

\* arguments conform to the schema declared for the tool (strict: True)
ArgsFor(n) == IF n = "get_weather" THEN Coordinates ELSE Questions
AllArgs == Coordinates \cup Questions

\* the serialized argument payload of tool_call.function.arguments
JsonDumps(a) ==
  IF "question" \in DOMAIN a
  THEN "{\"question\": \"" \o a.question \o "\"}"
  ELSE "{\"latitude\": " \o a.latitude \o ", \"longitude\": " \o a.longitude \o "}"

JsonLoads(s) == CHOOSE a \in AllArgs : JsonDumps(a) = s

CallId(i) == "call_" \o ToString(i)

ToolCall(i, n, a) ==
  [id |-> CallId(i), function |-> [name |-> n, arguments |-> JsonDumps(a)]]

RECURSIVE ToolCallLists(_)
\* every tool_calls list of length k; the i-th invocation carries id call_i
\* and arguments that conform to the schema of the tool it names
ToolCallLists(k) ==
  IF k = 0 THEN {<<>>}
  ELSE UNION {{Append(s, ToolCall(k, n, a)) :
                 s \in ToolCallLists(k - 1), a \in ArgsFor(n)} :
              n \in ToolNames}

List(s) == [kind |-> "list", items |-> s]

AssistantText(c) ==
  [role |-> "assistant", content |-> c, tool_calls |-> None]
AssistantCalls(s) ==
  [role |-> "assistant", content |-> NoText, tool_calls |-> List(s)]

\* the messages a request that declares tools can be answered with
ToolReplies ==
  {RemoteFailure}
  \cup {[kind |-> "ok", message |-> AssistantText("I can answer that directly.")]}
  \cup {[kind |-> "ok", message |-> AssistantCalls(s)] :
          s \in UNION {ToolCallLists(k) : k \in 1..MaxToolCalls}}

get_weather(a, io_ok) ==
  IF io_ok
  THEN Return(PyDict("'temperature_2m': 15.3 @ " \o a.latitude \o "," \o a.longitude))
  ELSE Raise("RequestException")

search_knowledge(a, io_ok) ==
  IF io_ok THEN Return(PyDict("'records': [...]"))
  ELSE Raise("FileNotFoundError")

fallback_answer(a) ==
  Return(PyStr("Sorry, I can only answer questions related to the e-commerce knowledge base. You asked: "
               \o a.question))

\* a dispatcher without the else branch: an unknown name yields None
call_function_tools_no_else(n, a, io_ok) ==
  IF n = "get_weather" THEN get_weather(a, io_ok)
  ELSE Return(None)

call_function_tools(n, a, io_ok) ==
  IF n = "get_weather" THEN get_weather(a, io_ok)
  ELSE Raise("ValueError: Unknown function: " \o n)

call_function_retrieval(n, a, io_ok) ==
  IF n = "search_knowledge" THEN search_knowledge(a, io_ok)
  ELSE IF n = "fallback_answer" THEN fallback_answer(a)
  ELSE Raise("ValueError: Unknown function: " \o n)

call_function(n, a, io_ok) ==
  IF script = "tools" THEN call_function_tools(n, a, io_ok)
  ELSE call_function_retrieval(n, a, io_ok)

-----------------------------------------------------------------------------
(* Structured replies *)

ParsedReplies(objects) ==
  {RemoteFailure} \cup {[kind |-> "ok", parsed |-> o] : o \in objects \cup {None}}

CalendarEvent ==
  {[kind |-> "CalendarEvent", name |-> "meeting", date |-> "2025-04-22",
    participants |-> <<"John", "Jane">>]}

WeatherResponse ==
  {[kind |-> "WeatherResponse", temperature |-> "15.3",
    response |-> "It is mild in Paris today."]}

InquiryResponse ==
  {[kind |-> "InquiryResponse", answer |-> "30 days", source |-> "1"]}

WeatherMessages ==
  <<SysMsg("You are a weather assistant"),
    UserMsg("What is the weather like in Paris today?")>>

StoreMessages(question) ==
  <<SysMsg("You are a helpful assistant for our e-commerce store"),
    UserMsg(question)>>

\* an uncaught exception ends the script
Crash(e) ==
  /\ err' = e
  /\ pc' = "raised"

-----------------------------------------------------------------------------
(* 2-structured.py *)

StructuredParse ==
  /\ script = "structured" /\ pc = "parse"
  /\ \E reply \in ParsedReplies(CalendarEvent) :
       /\ replies' = Append(replies, reply)
       /\ requests' = Append(requests,
            Request("completion", "parse",
                    <<SysMsg("You are a calendar assistant"),
                      UserMsg("Create a calendar event for the meeting with John and Jane on 2025-04-22, Tuesday.")>>,
                    "none", "CalendarEvent"))
       /\ IF reply.kind = "error"
          THEN Crash(RemoteError) /\ UNCHANGED final_response
          ELSE final_response' = reply.parsed /\ pc' = "read" /\ UNCHANGED err
  /\ UNCHANGED <<script, toolVars, flowVars, calls>>

\* event.date, event.name, event.participants
ReadFields(o) ==
  IF o = None THEN Raise("AttributeError: 'NoneType' object has no attribute")
  ELSE Return(o)

StructuredRead ==
  /\ script = "structured" /\ pc = "read"
  /\ IF ReadFields(final_response).raised
     THEN Crash(ReadFields(final_response).exc)
     ELSE pc' = "done" /\ UNCHANGED err
  /\ UNCHANGED <<script, toolVars, flowVars, final_response, requests, replies, calls>>

-----------------------------------------------------------------------------
(* The tool loop, written three times in the sources with the same body *)

\* a request that declares tools and no response_format; the loop that
\* follows iterates choices[0].message of its response
Create(site, api, msgs) ==
  \E reply \in ToolReplies :
    /\ replies' = Append(replies, reply)
    /\ requests' = Append(requests, Request(site, api, msgs, "tools", "none"))
    /\ IF reply.kind = "error"
       THEN Crash(RemoteError) /\ UNCHANGED <<response, idx>>
       ELSE /\ response' = reply.message
            /\ idx' = 1
            /\ pc' = "for"
            /\ UNCHANGED err

\* a loop that handles the first invocation only
LoopDone_first_only(i, items) == i > 1

\* the for statement has no tool_call left to bind
LoopDone(i, items) == i > Len(items)

\* the assistant message appended once, ahead of the first result
KeepMemory_once(msgs, message, i) ==
  IF i = 1 THEN Append(msgs, message) ELSE msgs

\* messages.append(response.choices[0].message), in the i-th iteration
KeepMemory(msgs, message, i) == Append(msgs, message)

\* `for tool_call in message.tool_calls:` and the first three lines of its
\* body: name, args, messages.append(message)
ForToolCall(exit) ==
  /\ pc = "for"
  /\ IF response.tool_calls = None
     THEN /\ Crash("TypeError: 'NoneType' object is not iterable")
          /\ UNCHANGED <<messages, name, args>>
     ELSE IF LoopDone(idx, response.tool_calls.items)
     THEN /\ pc' = exit
          /\ UNCHANGED <<err, messages, name, args>>
     ELSE LET tool_call == response.tool_calls.items[idx] IN
          /\ name' = tool_call.function.name
          /\ args' = JsonLoads(tool_call.function.arguments)
          /\ messages' = KeepMemory(messages, response, idx)
          /\ pc' = "call"
          /\ UNCHANGED err
  /\ UNCHANGED <<script, response, idx, phase, final_response, flowVars,
                 requests, replies, calls>>

\* result = call_function(name, args); messages.append({"role": "tool", ...})
ExecuteToolCall ==
  /\ pc = "call"
  /\ \E io_ok \in BOOLEAN :
       LET tool_call == response.tool_calls.items[idx]
           result == call_function(name, args, io_ok)
       IN /\ calls' = Append(calls, [fn |-> "call_function", arg |-> name,
                                     id |-> tool_call.id, result |-> result])
          /\ IF result.raised
             THEN Crash(result.exc) /\ UNCHANGED <<messages, idx>>
             ELSE /\ messages' = Append(messages,
                                        ToolMsg(tool_call.id, Str(result.value)))
                  /\ idx' = idx + 1
                  /\ pc' = "for"
                  /\ UNCHANGED err
  /\ UNCHANGED <<script, response, phase, name, args, final_response,
                 flowVars, requests, replies>>

\* client.beta.chat.completions.parse(messages, tools, response_format)
ParseWithFormat(site, objects, fmt, next) ==
  /\ \E reply \in ParsedReplies(objects) :
       /\ replies' = Append(replies, reply)
       /\ requests' = Append(requests,
                             Request(site, "parse", messages, "tools", fmt))
       /\ IF reply.kind = "error"
          THEN Crash(RemoteError) /\ UNCHANGED final_response
          ELSE final_response' = reply.parsed /\ pc' = next /\ UNCHANGED err
  /\ UNCHANGED <<script, toolVars, flowVars, calls>>

\* the attribute reads that follow a structured request
ReadParsed(next) ==
  /\ IF ReadFields(final_response).raised
     THEN Crash(ReadFields(final_response).exc)
     ELSE pc' = next /\ UNCHANGED err
  /\ UNCHANGED <<script, toolVars, flowVars, final_response, requests, replies, calls>>

-----------------------------------------------------------------------------
(* 3-tools.py *)

ToolsCreate ==
  /\ script = "tools" /\ pc = "create"
  /\ Create("response", "create", messages)
  /\ UNCHANGED <<script, messages, phase, name, args, final_response,
                 flowVars, calls>>

ToolsFor == script = "tools" /\ ForToolCall("parse2")

ToolsCall == script = "tools" /\ ExecuteToolCall

ToolsCompletion2 ==
  /\ script = "tools" /\ pc = "parse2"
  /\ ParseWithFormat("completion_2", WeatherResponse, "WeatherResponse", "read2")

ToolsRead == script = "tools" /\ pc = "read2" /\ ReadParsed("done")

-----------------------------------------------------------------------------
(* 4-retrieval.py *)

RetrievalCreate ==
  /\ script = "retrieval" /\ pc = "create"
  /\ Create("response", "create", messages)
  /\ UNCHANGED <<script, messages, phase, name, args, final_response,
                 flowVars, calls>>

RetrievalFor == script = "retrieval" /\ phase = 1 /\ ForToolCall("parse2")

RetrievalCall == script = "retrieval" /\ phase = 1 /\ ExecuteToolCall

RetrievalCompletion2 ==
  /\ script = "retrieval" /\ pc = "parse2"
  /\ ParseWithFormat("completion_2", InquiryResponse, "InquiryResponse", "read2")

RetrievalRead == script = "retrieval" /\ pc = "read2" /\ ReadParsed("create3")

\* step 6: a fresh messages list, then completion_3
RetrievalCompletion3 ==
  /\ script = "retrieval" /\ pc = "create3"
  /\ messages' = StoreMessages("What is the current weather in Tokyo?")
  /\ phase' = 2
  /\ Create("completion_3", "parse", messages')
  /\ UNCHANGED <<script, name, args, final_response, flowVars, calls>>

RetrievalFallbackFor ==
  script = "retrieval" /\ phase = 2 /\ ForToolCall("parseFinal")

RetrievalFallbackCall == script = "retrieval" /\ phase = 2 /\ ExecuteToolCall

RetrievalCompletionFinal ==
  /\ script = "retrieval" /\ pc = "parseFinal"
  /\ ParseWithFormat("completion_final", InquiryResponse, "InquiryResponse",
                     "readFinal")

\* completion_final.choices[0].message.parsed.answer
RetrievalReadFinal ==
  script = "retrieval" /\ pc = "readFinal" /\ ReadParsed("done")

-----------------------------------------------------------------------------
(* Workflow scripts: values *)

\* confidence scores are counted in hundredths: 0.8 is 80, 0.7 is 70
ChainingGate == 80
RoutingGate == 70

Scores == {0, RoutingGate - 1, RoutingGate, RoutingGate + 1,
           ChainingGate - 1, ChainingGate, ChainingGate + 1, 100}

ChainingInputs ==
  <<"Let's schedule a team meeting next Friday", "What is Python">>

RoutingInputs ==
  <<"Let's schedule a team meeting next Tuesday at 2pm with Alice and Bob",
    "Can you move the team meeting with Alice and Bob to Wednesday at 3pm instead?",
    "A">>

Descriptions == {"Team meeting next week", "Unrelated question"}

EventNames == {"Team meeting", "Roadmap review"}

EventExtraction ==
  [kind : {"EventExtraction"}, description : Descriptions,
   is_calendar_event : BOOLEAN, confidence_score : Scores]

EventDetails ==
  [kind : {"EventDetails"}, name : EventNames, date : {"2025-04-22T14:00"},
   duration_minutes : {60}, participants : {<<"Alice", "Bob">>}]

EventConfirmation ==
  [kind : {"EventConfirmation"},
   confirmation_message : {"Your meeting is booked. Quang"},
   calendar_link : {NoText, "https://calendar.example/evt"}]

CalendarRequestType ==
  [kind : {"CalendarRequestType"}, request_type : {"NEW", "MODIFY", "OTHER"},
   confidence_score : Scores, description : Descriptions]

NewEventDetails ==
  [kind : {"NewEventDetails"}, name : EventNames, date : {"2025-04-22T14:00"},
   duration_minutes : {60}, participants : {<<"Alice", "Bob">>}]

ModifyEventDetails ==
  [kind : {"ModifyEventDetails"}, event_identifier : EventNames,
   changes : {<<[field |-> "date", new_value |-> "Wednesday 3pm"]>>},
   participants_to_add : {<<"Quang">>}, participants_to_remove : {<<>>}]

RECURSIVE Join(_, _)
\* sep.join(items)
Join(sep, items) ==
  IF Len(items) = 0 THEN ""
  ELSE IF Len(items) = 1 THEN items[1]
  ELSE items[1] \o sep \o Join(sep, Tail(items))

RECURSIVE Quoted(_)
Quoted(items) ==
  IF Len(items) = 0 THEN <<>>
  ELSE <<"'" \o items[1] \o "'">> \o Quoted(Tail(items))

\* str(event_details.model_dump())
StrModelDump(d) ==
  "{'name': '" \o d.name \o "', 'date': '" \o d.date
  \o "', 'duration_minutes': " \o ToString(d.duration_minutes)
  \o ", 'participants': [" \o Join(", ", Quoted(d.participants)) \o "]}"

DateContext == "Today is <today>"

\* what one function did: the remote requests it issued and how it ended
Did(reqs, out) == [reqs |-> reqs, out |-> out]

\* completion.choices[0].message.parsed, or the remote call's exception
Parsed(reply) ==
  IF reply.kind = "error" THEN Raise(RemoteError) ELSE Return(reply.parsed)

-----------------------------------------------------------------------------
(* 1_prompt_chaining.py *)

\* a first call that asks again when the reply is unusable
extract_event_info_retry(input, reply) ==
  LET req == Request("extract_event_info", "parse",
                     <<SysMsg(DateContext \o " Analyze if the given describes a calendar event"),
                       UserMsg(input)>>,
                     "none", "EventExtraction")
  IN IF reply.kind = "error" THEN Did(<<req, req>>, Raise(RemoteError))
     ELSE IF reply.parsed = None THEN Did(<<req, req>>, Return(None))
     ELSE Did(<<req>>, Return(reply.parsed))

extract_event_info(input, reply) ==
  Did(<<Request("extract_event_info", "parse",
                <<SysMsg(DateContext \o " Analyze if the given describes a calendar event"),
                  UserMsg(input)>>,
                "none", "EventExtraction")>>,
      IF reply.kind = "error" THEN Raise(RemoteError)
      ELSE IF reply.parsed = None THEN Return(None)
      ELSE Return(reply.parsed))

parse_event_details(description, reply) ==
  Did(<<Request("parse_event_details", "parse",
                <<SysMsg(DateContext \o " Extract detailed event information."),
                  UserMsg(description)>>,
                "none", "EventDetails")>>,
      Parsed(reply))

generate_confirmation(details, reply) ==
  IF details = None
  THEN Did(<<>>, Raise("AttributeError: 'NoneType' object has no attribute 'model_dump'"))
  ELSE Did(<<Request("generate_confirmation", "parse",
                     <<SysMsg("Generate a confirmation message for the event. Sign of with the name, Quang."),
                       UserMsg(StrModelDump(details))>>,
                     "none", "EventConfirmation")>>,
           Parsed(reply))

\* a gate that also rejects a score equal to the threshold
GateFails_inclusive(info) ==
  ~info.is_calendar_event \/ info.confidence_score <= ChainingGate

\* the logic gate check of process_calendar_request
GateFails(info) ==
  ~info.is_calendar_event \/ info.confidence_score < ChainingGate

\* the None check of the second stage left out
DetailsMissing_unchecked(details) == FALSE

\* `if event_details is None`
DetailsMissing(details) == details = None

\* the second stage fed with the raw input
DetailsArgument_raw(info, input) == input

\* the argument process_calendar_request hands to parse_event_details
DetailsArgument(info, input) == info.description

\* process_calendar_request returns v to the top-level code
ReturnToMain(v) ==
  /\ final_result' = v
  /\ pc' = "returned"
  /\ UNCHANGED err

\* final_result = process_calendar_request(prompt_input)
ChainCall ==
  /\ script = "chaining" /\ pc = "main"
  /\ user_input' = ChainingInputs[runNo]
  /\ stage_result' = None
  /\ event_details' = None
  /\ replies' = <<>>
  /\ requests' = <<>>
  /\ calls' = <<>>
  /\ pc' = "extract"
  /\ UNCHANGED <<script, err, toolVars, final_response, runNo, final_result,
                 output>>

\* first LLM call and its None check
ChainExtract ==
  /\ script = "chaining" /\ pc = "extract"
  /\ \E reply \in ParsedReplies(EventExtraction) :
       LET did == extract_event_info(user_input, reply) IN
       /\ replies' = Append(replies, reply)
       /\ requests' = requests \o did.reqs
       /\ calls' = Append(calls, [fn |-> "extract_event_info", arg |-> user_input])
       /\ IF did.out.raised
          THEN Crash(did.out.exc) /\ UNCHANGED <<stage_result, final_result>>
          ELSE /\ stage_result' = did.out.value
               /\ IF did.out.value = None
                  THEN ReturnToMain(None)
                  ELSE pc' = "gate" /\ UNCHANGED <<err, final_result>>
  /\ UNCHANGED <<script, toolVars, final_response, runNo, user_input,
                 event_details, output>>

ChainGate ==
  /\ script = "chaining" /\ pc = "gate"
  /\ IF GateFails(stage_result)
     THEN ReturnToMain(None)
     ELSE pc' = "details" /\ UNCHANGED <<err, final_result>>
  /\ UNCHANGED <<script, toolVars, final_response, runNo, user_input,
                 stage_result, event_details, output, requests, replies, calls>>

\* second LLM call and its None check
ChainDetails ==
  /\ script = "chaining" /\ pc = "details"
  /\ \E reply \in ParsedReplies(EventDetails) :
       LET arg == DetailsArgument(stage_result, user_input)
           did == parse_event_details(arg, reply)
       IN /\ requests' = requests \o did.reqs
          /\ replies' = Append(replies, reply)
          /\ calls' = Append(calls, [fn |-> "parse_event_details", arg |-> arg])
          /\ IF did.out.raised
             THEN Crash(did.out.exc) /\ UNCHANGED <<event_details, final_result>>
             ELSE /\ event_details' = did.out.value
                  /\ IF DetailsMissing(did.out.value)
                     THEN ReturnToMain(None)
                     ELSE pc' = "confirm" /\ UNCHANGED <<err, final_result>>
  /\ UNCHANGED <<script, toolVars, final_response, runNo, user_input,
                 stage_result, output>>

\* third LLM call; its result is returned as it is
ChainConfirm ==
  /\ script = "chaining" /\ pc = "confirm"
  /\ \E reply \in ParsedReplies(EventConfirmation) :
       LET did == generate_confirmation(event_details, reply) IN
       /\ replies' = IF Len(did.reqs) = 0 THEN replies ELSE Append(replies, reply)
       /\ requests' = requests \o did.reqs
       /\ calls' = Append(calls, [fn |-> "generate_confirmation",
                                  arg |-> event_details])
       /\ IF did.out.raised
          THEN Crash(did.out.exc) /\ UNCHANGED final_result
          ELSE ReturnToMain(did.out.value)
  /\ UNCHANGED <<script, toolVars, final_response, runNo, user_input,
                 stage_result, event_details, output>>

\* the top-level code after each call: print the confirmation or the notice
ChainPrint ==
  /\ script = "chaining" /\ pc = "returned"
  /\ output' = output \o
       (IF final_result # None
        THEN <<"Confirmation: " \o final_result.confirmation_message>>
             \o (IF final_result.calendar_link \notin {NoText, ""}
                 THEN <<"Calendar Link: " \o final_result.calendar_link>>
                 ELSE <<>>)
        ELSE <<"This doesn't appear to be a calendar event request.">>)
  /\ runNo' = runNo + 1
  /\ pc' = IF runNo < Len(ChainingInputs) THEN "main" ELSE "done"
  /\ UNCHANGED <<script, err, toolVars, final_response, user_input,
                 stage_result, event_details, final_result, requests, replies, calls>>

-----------------------------------------------------------------------------
(* 2_routing.py *)

CalendarResponse(success, message, calendar_link) ==
  [kind |-> "CalendarResponse", success |-> success, message |-> message,
   calendar_link |-> calendar_link]

route_calendar_request(input, reply) ==
  Did(<<Request("route_calendar_request", "parse",
                <<SysMsg("Determine if this is a request to create a new calendar event or modify an existing one."),
                  UserMsg(input)>>,
                "none", "CalendarRequestType")>>,
      IF reply.kind = "error" THEN Raise(RemoteError)
      ELSE IF reply.parsed = None THEN Return(None)
      ELSE Return(reply.parsed))

\* a handler that answers an absent parse with a failure response
handle_new_event_failure(description, reply) ==
  Did(<<Request("handle_new_event", "parse",
                <<SysMsg(DateContext \o " Extract detailed event information for creating a new calendar event."),
                  UserMsg(description)>>,
                "none", "NewEventDetails")>>,
      IF reply.kind = "error" THEN Raise(RemoteError)
      ELSE IF reply.parsed = None
      THEN Return(CalendarResponse(FALSE, "Could not read the event", NoText))
      ELSE LET details == reply.parsed IN
           Return(CalendarResponse(TRUE,
             "Created new event '" \o details.name \o "' for " \o details.date
               \o " with " \o Join(", ", details.participants),
             "calendar://new?event=" \o details.name)))

handle_new_event(description, reply) ==
  Did(<<Request("handle_new_event", "parse",
                <<SysMsg(DateContext \o " Extract detailed event information for creating a new calendar event."),
                  UserMsg(description)>>,
                "none", "NewEventDetails")>>,
      IF reply.kind = "error" THEN Raise(RemoteError)
      ELSE IF reply.parsed = None THEN Return(None)
      ELSE LET details == reply.parsed IN
           Return(CalendarResponse(TRUE,
             "Created new event '" \o details.name \o "' for " \o details.date
               \o " with " \o Join(", ", details.participants),
             "calendar://new?event=" \o details.name)))

handle_modify_event(description, reply) ==
  Did(<<Request("handle_modify_event", "parse",
                <<SysMsg(" " \o DateContext \o " Extract details for modifying an existing calendar event."),
                  UserMsg(description)>>,
                "none", "ModifyEventDetails")>>,
      IF reply.kind = "error" THEN Raise(RemoteError)
      ELSE IF reply.parsed = None THEN Return(None)
      ELSE LET details == reply.parsed IN
           Return(CalendarResponse(TRUE,
             "Modified event '" \o details.event_identifier
               \o "' with the requested changes",
             "calendar://modify?event=" \o details.event_identifier)))

\* a threshold check that also rejects a score equal to the threshold
LowConfidence_inclusive(route) == route.confidence_score <= RoutingGate

\* the confidence threshold check of process_calendar_request
LowConfidence(route) == route.confidence_score < RoutingGate

\* which handler the if/elif/else selects: "" when the type is not supported
HandlerFor(request_type) ==
  IF request_type = "NEW" THEN "handle_new_event"
  ELSE IF request_type = "MODIFY" THEN "handle_modify_event"
  ELSE ""

\* the handler fed with the raw input
HandlerArgument_raw(route, input) == input

\* the argument process_calendar_request hands to the handler
HandlerArgument(route, input) == route.description

\* result = process_calendar_request(...)
RouteCall ==
  /\ script = "routing" /\ pc = "main"
  /\ user_input' = RoutingInputs[runNo]
  /\ stage_result' = None
  /\ replies' = <<>>
  /\ requests' = <<>>
  /\ calls' = <<>>
  /\ pc' = "route"
  /\ UNCHANGED <<script, err, toolVars, final_response, runNo, event_details,
                 final_result, output>>

\* route the request, and the None check
RouteRoute ==
  /\ script = "routing" /\ pc = "route"
  /\ \E reply \in ParsedReplies(CalendarRequestType) :
       LET did == route_calendar_request(user_input, reply) IN
       /\ replies' = Append(replies, reply)
       /\ requests' = requests \o did.reqs
       /\ calls' = Append(calls, [fn |-> "route_calendar_request",
                                  arg |-> user_input])
       /\ IF did.out.raised
          THEN Crash(did.out.exc) /\ UNCHANGED <<stage_result, final_result>>
          ELSE /\ stage_result' = did.out.value
               /\ IF did.out.value = None
                  THEN ReturnToMain(None)
                  ELSE pc' = "confidence" /\ UNCHANGED <<err, final_result>>
  /\ UNCHANGED <<script, toolVars, final_response, runNo, user_input,
                 event_details, output>>

RouteConfidence ==
  /\ script = "routing" /\ pc = "confidence"
  /\ IF LowConfidence(stage_result)
     THEN ReturnToMain(None)
     ELSE pc' = "dispatch" /\ UNCHANGED <<err, final_result>>
  /\ UNCHANGED <<script, toolVars, final_response, runNo, user_input,
                 stage_result, event_details, output, requests, replies, calls>>

\* route to the appropriate handler and return what it returns
RouteDispatch ==
  /\ script = "routing" /\ pc = "dispatch"
  /\ LET handler == HandlerFor(stage_result.request_type)
         arg == HandlerArgument(stage_result, user_input)
     IN IF handler = ""
        THEN ReturnToMain(None) /\ UNCHANGED <<requests, replies, calls>>
        ELSE \E reply \in ParsedReplies(IF handler = "handle_new_event"
                                        THEN NewEventDetails
                                        ELSE ModifyEventDetails) :
               LET did == IF handler = "handle_new_event"
                          THEN handle_new_event(arg, reply)
                          ELSE handle_modify_event(arg, reply)
               IN /\ requests' = requests \o did.reqs
                  /\ replies' = Append(replies, reply)
                  /\ calls' = Append(calls, [fn |-> handler, arg |-> arg])
                  /\ IF did.out.raised
                     THEN Crash(did.out.exc) /\ UNCHANGED final_result
                     ELSE ReturnToMain(did.out.value)
  /\ UNCHANGED <<script, toolVars, final_response, runNo, user_input,
                 stage_result, event_details, output>>

\* the top-level code after each call: steps 3 and 4 print the response
\* message, step 5 prints the notice when there is no result
RoutePrint ==
  /\ script = "routing" /\ pc = "returned"
  /\ output' = output \o
       (IF runNo < Len(RoutingInputs)
        THEN IF final_result # None
             THEN <<"Response: " \o final_result.message>> ELSE <<>>
        ELSE IF final_result = None
             THEN <<"Request not recognized as a calendar operation">>
             ELSE <<>>)
  /\ runNo' = runNo + 1
  /\ pc' = IF runNo < Len(RoutingInputs) THEN "main" ELSE "done"
  /\ UNCHANGED <<script, err, toolVars, final_response, user_input,
                 stage_result, event_details, final_result, requests, replies, calls>>

-----------------------------------------------------------------------------
(* The specification *)

Scripts == {"structured", "tools", "retrieval", "chaining", "routing"}

Init ==
  /\ script \in Scripts
  /\ pc = CASE script = "structured" -> "parse"
            [] script \in {"tools", "retrieval"} -> "create"
            [] OTHER -> "main"
  /\ err = NoErr
  /\ messages = CASE script = "tools" -> WeatherMessages
                  [] script = "retrieval" -> StoreMessages("What is the return policy?")
                  [] OTHER -> <<>>
  /\ response = None
  /\ idx = 0
  /\ phase = 1
  /\ name = ""
  /\ args = None
  /\ final_response = None
  /\ runNo = 1
  /\ user_input = ""
  /\ stage_result = None
  /\ event_details = None
  /\ final_result = None
  /\ output = <<>>
  /\ requests = <<>>
  /\ replies = <<>>
  /\ calls = <<>>

Next ==
  \/ StructuredParse
  \/ StructuredRead
  \/ ToolsCreate
  \/ ToolsFor
  \/ ToolsCall
  \/ ToolsCompletion2
  \/ ToolsRead
  \/ RetrievalCreate
  \/ RetrievalFor
  \/ RetrievalCall
  \/ RetrievalCompletion2
  \/ RetrievalRead
  \/ RetrievalCompletion3
  \/ RetrievalFallbackFor
  \/ RetrievalFallbackCall
  \/ RetrievalCompletionFinal
  \/ RetrievalReadFinal
  \/ ChainCall
  \/ ChainExtract
  \/ ChainGate
  \/ ChainDetails
  \/ ChainConfirm
  \/ ChainPrint
  \/ RouteCall
  \/ RouteRoute
  \/ RouteConfidence
  \/ RouteDispatch
  \/ RoutePrint

Spec == Init /\ [][Next]_vars

-----------------------------------------------------------------------------
(* Properties of the tool scripts *)

ToolScripts == {"tools", "retrieval"}

\* the names each script's call_function recognizes
Registry ==
  IF script = "tools" THEN {"get_weather"}
  ELSE {"search_knowledge", "fallback_answer"}

\* the requests issued up to and including the one the loop's response answers
RequestsBeforeLoop == IF phase = 1 THEN 1 ELSE 3

ToolMessages(msgs) == SelectSeq(msgs, LAMBDA m : m.role = "tool")

\* C1: once call_function has been called with a name outside the script's
\* registry, it has raised ValueError "Unknown function: <name>", the script
\* has ended with that error, messages holds no tool message for that
\* invocation, no later invocation was executed and no request was issued
\* after the one whose response carried the invocation.
UnknownToolFails ==
  script \in ToolScripts =>
    \A i \in 1..Len(calls) :
      calls[i].arg \notin Registry =>
        /\ calls[i].result = Raise("ValueError: Unknown function: " \o calls[i].arg)
        /\ pc = "raised"
        /\ err = "ValueError: Unknown function: " \o calls[i].arg
        /\ i = Len(calls)
        /\ \A k \in 1..Len(messages) :
             messages[k].role = "tool" => messages[k].tool_call_id # calls[i].id
        /\ Len(ToolMessages(messages)) = idx - 1
        /\ Len(requests) = RequestsBeforeLoop

\* 3-tools.py executed get_weather, then met an invocation of a tool it does
\* not know
UnknownToolWitness ==
  /\ script = "tools"
  /\ Len(calls) = 2
  /\ calls[1].arg = "get_weather"
  /\ calls[2].arg = "search_knowledge"
  /\ err = "ValueError: Unknown function: search_knowledge"

\* C2: every tool message of the message list is immediately preceded by the
\* assistant message whose tool_calls hold the invocation with its id.
ToolFollowsAssistant ==
  script \in ToolScripts =>
    \A k \in 1..Len(messages) :
      messages[k].role = "tool" =>
        /\ k > 1
        /\ messages[k - 1].role = "assistant"
        /\ messages[k - 1].tool_calls # None
        /\ \E j \in 1..Len(messages[k - 1].tool_calls.items) :
             messages[k - 1].tool_calls.items[j].id = messages[k].tool_call_id

\* the loop is in its second iteration, one tool message appended
ToolFollowsAssistantWitness ==
  /\ script \in ToolScripts
  /\ pc = "call"
  /\ idx = 2
  /\ Len(ToolMessages(messages)) = 1

LastRequest == requests[Len(requests)]

\* the content a successful local execution of the invocation tc leads to
ResultText(tc) ==
  Str(call_function(tc.function.name, JsonLoads(tc.function.arguments), TRUE).value)

\* C3: when the structured request that follows a tool loop is submitted,
\* the submitted messages hold exactly one tool message per invocation of the
\* looped response, in invocation order, each with the invocation's id and
\* the text of its local result.
ResubmitAfterAllResolved ==
  (/\ script \in ToolScripts
   /\ Len(requests) > 0
   /\ LastRequest.site \in {"completion_2", "completion_final"}) =>
    /\ response # None
    /\ response.tool_calls # None
    /\ LET items == response.tool_calls.items
           tm == ToolMessages(LastRequest.messages)
       IN /\ Len(tm) = Len(items)
          /\ \A i \in 1..Len(items) :
               /\ tm[i].tool_call_id = items[i].id
               /\ tm[i].content = ResultText(items[i])
               /\ items[i].function.name \in Registry

\* 4-retrieval.py submits completion_final after two resolved invocations
ResubmitWitness ==
  /\ script = "retrieval"
  /\ Len(requests) > 0
  /\ LastRequest.site = "completion_final"
  /\ Len(response.tool_calls.items) = 2
  /\ Len(ToolMessages(LastRequest.messages)) = 2

-----------------------------------------------------------------------------
(* Properties of the workflow scripts *)

Workflows == {"chaining", "routing"}

\* process_calendar_request has returned, or the top-level code went on
AfterReturn == {"returned", "main", "done"}

Handlers == {"handle_new_event", "handle_modify_event"}

\* C4: a router result with confidence_score below 0.7 makes the routing
\* process_calendar_request return None, without an exception and without a
\* handler being invoked, whatever the request_type; a score of exactly 0.7
\* passes the check, so that a NEW or MODIFY request reaches its handler.
RoutingLowConfidenceDeclines ==
  (script = "routing" /\ stage_result # None) =>
    /\ stage_result.confidence_score < RoutingGate =>
         /\ pc \in AfterReturn \cup {"confidence"}
         /\ err = NoErr
         /\ Len(calls) = 1
         /\ Len(requests) = 1
         /\ pc \in AfterReturn => final_result = None
    /\ (/\ stage_result.confidence_score = RoutingGate
        /\ stage_result.request_type \in {"NEW", "MODIFY"}
        /\ pc \notin {"confidence", "dispatch"}) =>
         /\ Len(calls) = 2
         /\ calls[2].fn \in Handlers

\* a NEW request routed with confidence 0.69 has been declined
RoutingLowConfidenceWitness ==
  /\ script = "routing"
  /\ pc = "returned"
  /\ stage_result # None
  /\ stage_result.request_type = "NEW"
  /\ stage_result.confidence_score = RoutingGate - 1
  /\ final_result = None

\* C5: in both workflows, once a stage's structured parse is absent,
\* process_calendar_request returns None, without an exception, and no
\* later stage is called and no later request is issued.
AbsentParseReturnsNone ==
  script \in Workflows =>
    \A k \in 1..Len(replies) :
      (replies[k].kind = "ok" /\ replies[k].parsed = None) =>
        /\ k = Len(replies)
        /\ Len(requests) = k
        /\ Len(calls) = k
        /\ err = NoErr
        /\ pc \in AfterReturn
        /\ final_result = None

\* the chain's second stage came back without a parse
AbsentParseWitness ==
  /\ script = "chaining"
  /\ pc = "returned"
  /\ Len(replies) = 2
  /\ replies[2].kind = "ok"
  /\ replies[2].parsed = None

\* a structured request was answered without a parsed object
AbsentParse ==
  \E k \in 1..Len(replies) :
    /\ replies[k].kind = "ok"
    /\ requests[k].response_format # "none"
    /\ replies[k].parsed = None

\* C6: a structured response whose parsed object is absent never makes a
\* script raise.
NullParseNeverRaises == AbsentParse => err = NoErr

\* C7: a response to a request declaring tools that selects no tool never
\* makes a tool script raise: no tool runs, no tool message is appended.
NoToolSelectedContinues ==
  (/\ script \in ToolScripts
   /\ response # None
   /\ response.tool_calls = None) =>
    /\ err = NoErr
    /\ pc # "call"
    /\ Len(ToolMessages(messages)) = 0

\* C8: in the workflows every invoked function issues exactly one request,
\* a run of the chain issues at most three and a run of the router at most
\* two, and a request that fails is the last one: its exception ends the run.
NoRetries ==
  script \in Workflows =>
    /\ Len(requests) = Len(calls)
    /\ Len(replies) = Len(requests)
    /\ \A k \in 1..Len(requests) :
         /\ k <= Len(calls) => requests[k].site = calls[k].fn
         /\ replies[k].kind = "error" =>
              k = Len(requests) /\ pc = "raised" /\ err = RemoteError
    /\ Len(requests) <= (IF script = "chaining" THEN 3 ELSE 2)
    /\ err = RemoteError =>
         pc = "raised" /\ replies[Len(replies)].kind = "error"

\* the chain's third request failed
NoRetriesWitness ==
  /\ script = "chaining"
  /\ Len(requests) = 3
  /\ err = RemoteError
  /\ pc = "raised"

\* C9: in the chain, an extraction result that is not a calendar event or
\* has confidence below 0.8 makes process_calendar_request return None with
\* no exception and no further call; a calendar event with confidence of
\* 0.8 or more gets parse_event_details called.
ChainingGateDecides ==
  (script = "chaining" /\ stage_result # None) =>
    /\ (\/ ~stage_result.is_calendar_event
        \/ stage_result.confidence_score < ChainingGate) =>
         /\ pc \in AfterReturn \cup {"gate"}
         /\ err = NoErr
         /\ Len(calls) = 1
         /\ Len(requests) = 1
         /\ pc \in AfterReturn => final_result = None
    /\ (/\ stage_result.is_calendar_event
        /\ stage_result.confidence_score >= ChainingGate
        /\ pc \notin {"gate", "details"}) =>
         /\ Len(calls) >= 2
         /\ calls[2].fn = "parse_event_details"

\* an event extracted with confidence exactly 0.8 reached the second stage
ChainingGateWitness ==
  /\ script = "chaining"
  /\ stage_result # None
  /\ stage_result.is_calendar_event
  /\ stage_result.confidence_score = ChainingGate
  /\ Len(calls) = 2
  /\ calls[2].fn = "parse_event_details"

ChainOrder ==
  <<"extract_event_info", "parse_event_details", "generate_confirmation">>

\* C10: the chain calls extraction, details, confirmation in this order,
\* each after its predecessor returned an object; the first request carries
\* the user input, the second the description of the extraction result, the
\* third the EventDetails object the second returned.
ChainOrderAndSeeding ==
  script = "chaining" =>
    /\ Len(calls) <= Len(ChainOrder)
    /\ \A k \in 1..Len(calls) :
         /\ calls[k].fn = ChainOrder[k]
         /\ k > 1 => replies[k - 1].kind = "ok" /\ replies[k - 1].parsed # None
    /\ Len(calls) >= 1 =>
         /\ calls[1].arg = user_input
         /\ requests[1].messages[2].content = user_input
    /\ Len(calls) >= 2 =>
         /\ calls[2].arg = replies[1].parsed.description
         /\ requests[2].messages[2].content = replies[1].parsed.description
    /\ Len(calls) >= 3 =>
         /\ calls[3].arg = replies[2].parsed
         /\ requests[3].messages[2].content = StrModelDump(replies[2].parsed)

\* all three stages ran and a confirmation was returned
ChainOrderWitness ==
  /\ script = "chaining"
  /\ pc = "returned"
  /\ Len(calls) = 3
  /\ final_result # None

\* the handler the claim assigns to a request type
HandlerOf(request_type) ==
  IF request_type = "NEW" THEN "handle_new_event" ELSE "handle_modify_event"

\* C11: in the routing workflow the router is called first and at most one
\* handler after it; a handler runs only for a router result with
\* confidence of 0.7 or more, handle_new_event for NEW and
\* handle_modify_event for MODIFY, and it is given the router's description;
\* with such a confidence NEW and MODIFY do reach their handler, and OTHER
\* invokes none and returns None.
ClassifyThenDispatch ==
  script = "routing" =>
    /\ Len(calls) <= 2
    /\ Len(calls) >= 1 => calls[1].fn = "route_calendar_request"
    /\ Len(calls) = 2 =>
         /\ replies[1].kind = "ok"
         /\ replies[1].parsed # None
         /\ replies[1].parsed.confidence_score >= RoutingGate
         /\ replies[1].parsed.request_type \in {"NEW", "MODIFY"}
         /\ calls[2].fn = HandlerOf(replies[1].parsed.request_type)
         /\ calls[2].arg = replies[1].parsed.description
         /\ requests[2].site = calls[2].fn
         /\ requests[2].messages[2].content = replies[1].parsed.description
    /\ (/\ stage_result # None
        /\ stage_result.confidence_score >= RoutingGate
        /\ pc \in AfterReturn \cup {"raised"}) =>
         IF stage_result.request_type = "OTHER"
         THEN Len(calls) = 1 /\ err = NoErr /\ final_result = None
         ELSE Len(calls) = 2

\* a MODIFY request was routed to handle_modify_event, which answered
ClassifyThenDispatchWitness ==
  /\ script = "routing"
  /\ pc = "returned"
  /\ Len(calls) = 2
  /\ calls[2].fn = "handle_modify_event"
  /\ final_result # None

\* the tool loop has run through every invocation of its response
LoopFinished ==
  /\ script \in ToolScripts
  /\ response # None
  /\ response.tool_calls # None
  /\ pc \in {"parse2", "parseFinal"}

\* the messages the list held before the loop: system and user
BeforeLoop == Len(StoreMessages(""))

\* C12: after the tool loop has processed a response with n invocations,
\* the message list holds the assistant message of that response exactly
\* once, followed by the n tool messages: it has grown by n + 1 entries.
HistoryGrowsByNPlusOne ==
  LoopFinished =>
    LET n == Len(response.tool_calls.items) IN
    /\ Len(messages) = BeforeLoop + n + 1
    /\ Len(SelectSeq(messages, LAMBDA m : m = response)) = 1
    /\ messages[BeforeLoop + 1] = response
    /\ \A i \in 1..n : messages[BeforeLoop + 1 + i].role = "tool"

\* the reply to the k-th request of the run carries a parsed object
ParsePresent(k) ==
  /\ Len(replies) >= k
  /\ replies[k].kind = "ok"
  /\ replies[k].parsed # None

\* C13: the routing process_calendar_request returns a CalendarResponse
\* exactly when the router's parse is present, its confidence is 0.7 or
\* more, its request_type is NEW or MODIFY and the handler's parse is
\* present, and None otherwise; a returned response has success True and a
\* calendar_link built from the parsed name (NEW) or event_identifier
\* (MODIFY).
RoutingResponseIff ==
  (script = "routing" /\ pc = "returned") =>
    LET accepted ==
          /\ ParsePresent(1)
          /\ replies[1].parsed.confidence_score >= RoutingGate
          /\ replies[1].parsed.request_type \in {"NEW", "MODIFY"}
        handled == accepted /\ ParsePresent(2)
    IN /\ final_result # None <=> handled
       /\ final_result # None =>
            /\ final_result.kind = "CalendarResponse"
            /\ final_result.success = TRUE
            /\ final_result.calendar_link # NoText
            /\ final_result.calendar_link =
                 IF replies[1].parsed.request_type = "NEW"
                 THEN "calendar://new?event=" \o replies[2].parsed.name
                 ELSE "calendar://modify?event=" \o replies[2].parsed.event_identifier

\* a NEW request came back with the link of the parsed event
RoutingResponseWitness ==
  /\ script = "routing"
  /\ pc = "returned"
  /\ final_result # None
  /\ stage_result.request_type = "NEW"
  /\ final_result.calendar_link = "calendar://new?event=Team meeting"

====
